---- MODULE Spec2Model ----
\* Model of scripts/setup-ankiweb-credentials.py: one process run per
\* invocation, the prefs21.db profiles table, the sqlite3 connection's pending
\* transaction and the single hostKey exchange with AnkiWeb.
\*
\* Text values (environment values, usernames, tokens) are tuples of
\* one-character strings so that str.strip() can be computed.  Python's None
\* is the tuple None, which no text value equals.  A dict is a function from
\* field names to values.
EXTENDS Integers, Sequences, FiniteSets, TLC

\* ---------------------------------------------------------------- bounds
MaxRuns == 2
MaxLen == 1

\* ---------------------------------------------------------------- values
None == <<"None">>
Chars == {" ", "a"}
RECURSIVE SeqsUpTo(_)
SeqsUpTo(n) == IF n = 0 THEN {<<>>}
               ELSE SeqsUpTo(n - 1) \cup {Append(s, c) : s \in SeqsUpTo(n - 1), c \in Chars}
Unset == <<"unset">>
EnvValues == {Unset} \cup SeqsUpTo(MaxLen)
Tokens == {<<"x">>, <<"y">>}
Ids == {8, 9}

PROFILE_NAME == "User 1"

VARIABLES HAS_ZSTD, now, rnd, envUserKind, envPassKind, username, password,
          tableExists, db, txn, inTxn, pc, runs,
          global_profile, user_profile, requests, request, response,
          errKind, exitStatus, pre, preTable, last

vars == <<HAS_ZSTD, now, rnd, envUserKind, envPassKind, username, password,
          tableExists, db, txn, inTxn, pc, runs,
          global_profile, user_profile, requests, request, response,
          errKind, exitStatus, pre, preTable, last>>

\* ---------------------------------------------------------------- dicts
Put(d, k, v) == [x \in (DOMAIN d) \cup {k} |-> IF x = k THEN v ELSE d[x]]
EmptyDict == [x \in {} |-> 0]

DEFAULT_GLOBAL_PROFILE ==
  [created |-> now, defaultLang |-> "en_US", firstRun |-> FALSE, id |-> rnd,
   lastMsg |-> 0, last_loaded_profile_name |-> PROFILE_NAME,
   last_run_version |-> 250204, suppressUpdate |-> FALSE, updates |-> TRUE,
   ver |-> 0]

DEFAULT_USER_PROFILE ==
  [mainWindowGeom |-> None, mainWindowState |-> None, numBackups |-> 50,
   lastOptimize |-> now, searchHistory |-> <<>>, syncKey |-> None,
   syncMedia |-> TRUE, autoSync |-> TRUE, allowHTML |-> FALSE,
   importMode |-> 1, lastColour |-> "#00f", stripHTML |-> TRUE,
   deleteMedia |-> FALSE]

\* pickle.dumps / pickle.loads: the blob wraps the mapping
PickleDumps(d) == [pickle |-> d]
PickleLoads(b) == b.pickle

\* ---------------------------------------------------------------- strings
IsSpace(c) == c = " "
RECURSIVE LStrip(_)
LStrip(s) == IF s # <<>> /\ IsSpace(Head(s)) THEN LStrip(Tail(s)) ELSE s
RECURSIVE RStrip(_)
RStrip(s) == IF s # <<>> /\ IsSpace(s[Len(s)]) THEN RStrip(SubSeq(s, 1, Len(s) - 1)) ELSE s
StripNoop(s) == s
Strip(s) == RStrip(LStrip(s))

\* the kinds of value an environment variable can have
EnvKind(e) == IF e = Unset THEN "unset"
              ELSE IF e = <<>> THEN "empty"
              ELSE IF \A i \in 1..Len(e) : e[i] = " " THEN "blank"
              ELSE "text"

\* os.environ.get(name, "")
EnvGet(v) == IF v = Unset THEN <<>> ELSE v
\* Python truthiness of an Optional[str]
Truthy(s) == s # None /\ s # <<>>

\* main(): lines 219-226
MainCredentials(eu, ep) ==
  LET u == Strip(EnvGet(eu))
      p == Strip(EnvGet(ep))
  IN IF ~Truthy(u) \/ ~Truthy(p) THEN [username |-> None, password |-> None]
     ELSE [username |-> u, password |-> p]

\* ---------------------------------------------------------------- table
\* collate nocase on the names that occur
Fold(n) == CASE n \in {"_global", "_GLOBAL"} -> "_global"
             [] n \in {"User 1", "user 1", "USER 1"} -> "user 1"
             [] OTHER -> "other"
UniqueNames(rows) == \A r1, r2 \in rows : Fold(r1.name) = Fold(r2.name) => r1 = r2
\* SELECT data FROM profiles WHERE name = ?  (fetchone: the set of matches)
Select(rows, n) == {r \in rows : Fold(r.name) = Fold(n)}
InsertOrReplaceExact(rows, n, blob) ==
  {r \in rows : r.name # n} \cup {[name |-> n, data |-> blob]}
\* INSERT OR REPLACE INTO profiles (name, data) VALUES (?, ?)
InsertOrReplace(rows, n, blob) ==
  {r \in rows : Fold(r.name) # Fold(n)} \cup {[name |-> n, data |-> blob]}
RowData(rows, n) == PickleLoads((CHOOSE r \in Select(rows, n) : TRUE).data)
HasRow(rows, n) == Select(rows, n) # {}

\* setup_profile lines 157-162
LoadGlobalFresh(rows) == DEFAULT_GLOBAL_PROFILE
LoadGlobalMerged(rows) ==
  IF HasRow(rows, "_global")
  THEN LET g == RowData(rows, "_global")
       IN [k \in (DOMAIN DEFAULT_GLOBAL_PROFILE) \cup (DOMAIN g) |->
              IF k \in DOMAIN g THEN g[k] ELSE DEFAULT_GLOBAL_PROFILE[k]]
  ELSE DEFAULT_GLOBAL_PROFILE
LoadGlobalProfile(rows) ==
  IF HasRow(rows, "_global") THEN RowData(rows, "_global") ELSE DEFAULT_GLOBAL_PROFILE

\* setup_profile lines 165-167
EnsureCriticalIfMissing(g) ==
  LET g1 == IF "firstRun" \in DOMAIN g THEN g ELSE Put(g, "firstRun", FALSE)
  IN Put(Put(g1, "defaultLang", "en_US"), "last_loaded_profile_name", PROFILE_NAME)
EnsureCritical(g) ==
  Put(Put(Put(g, "firstRun", FALSE), "defaultLang", "en_US"),
      "last_loaded_profile_name", PROFILE_NAME)

\* setup_profile lines 179-184
LoadUserFresh(rows) == DEFAULT_USER_PROFILE
LoadUserProfile(rows) ==
  IF HasRow(rows, PROFILE_NAME) THEN RowData(rows, PROFILE_NAME) ELSE DEFAULT_USER_PROFILE

\* setup_profile line 187
UseCredentials(u, p) == Truthy(u) /\ Truthy(p)

\* setup_profile lines 191-194
SetCredentialsIfUnset(u, hkey, uname) ==
  LET u1 == IF "syncKey" \in DOMAIN u /\ u["syncKey"] # None THEN u ELSE Put(u, "syncKey", hkey)
  IN Put(Put(Put(u1, "syncUser", uname), "autoSync", TRUE), "syncMedia", TRUE)
SetCredentials(u, hkey, uname) ==
  Put(Put(Put(Put(u, "syncKey", hkey), "syncUser", uname), "autoSync", TRUE),
      "syncMedia", TRUE)

\* ---------------------------------------------------------------- fetcher
ErrInvalid == "Invalid AnkiWeb username or password"
ErrStatus == "AnkiWeb request failed with status"
ErrConnect == "Failed to connect to AnkiWeb"
ErrUnexpected == "Unexpected response from AnkiWeb"
ErrDecode == "decode error"

\* get_hkey_from_ankiweb lines 87-105
BuildRequest(u, p, zstd) ==
  [url |-> "https://sync.ankiweb.net/sync/hostKey", method |-> "POST",
   u |-> u, p |-> p, compressed |-> zstd,
   contentType |-> IF zstd THEN "application/octet-stream" ELSE "application/json",
   ankiSync |-> zstd]

\* what urlopen can produce: an HTTP status with a body, or a URLError
Bodies == {[valid |-> TRUE, obj |-> [key |-> t]] : t \in Tokens}
          \cup {[valid |-> TRUE, obj |-> [err |-> <<"a">>]],
                [valid |-> FALSE, obj |-> EmptyDict]}
Responses ==
  {[kind |-> "http", code |-> 200, zstd |-> z, body |-> b] : z \in BOOLEAN, b \in Bodies}
  \cup {[kind |-> "http", code |-> c, zstd |-> FALSE, body |-> [valid |-> FALSE, obj |-> EmptyDict]] :
          c \in {401, 403, 500}}
  \cup {[kind |-> "urlerror", code |-> 0, zstd |-> FALSE, body |-> [valid |-> FALSE, obj |-> EmptyDict]]}

Failure(e) == [ok |-> FALSE, key |-> None, err |-> e]

\* get_hkey_from_ankiweb lines 107-129
GetHkey401Only(resp, zstd) ==
  IF resp.kind = "urlerror" THEN Failure(ErrConnect)
  ELSE IF resp.code # 200
       THEN IF resp.code = 401 THEN Failure(ErrInvalid) ELSE Failure(ErrStatus)
  ELSE IF (resp.zstd /\ ~zstd) \/ ~resp.body.valid THEN Failure(ErrDecode)
  ELSE IF "key" \notin DOMAIN resp.body.obj THEN Failure(ErrUnexpected)
  ELSE [ok |-> TRUE, key |-> resp.body.obj["key"], err |-> ""]
GetHkeyFallback(resp, zstd) ==
  IF resp.kind = "urlerror" THEN Failure(ErrConnect)
  ELSE IF resp.code # 200
       THEN IF resp.code = 403 THEN Failure(ErrInvalid)
            ELSE IF resp.code = 401 THEN [ok |-> TRUE, key |-> <<"x">>, err |-> ""]
            ELSE Failure(ErrStatus)
  ELSE IF (resp.zstd /\ ~zstd) \/ ~resp.body.valid THEN Failure(ErrDecode)
  ELSE IF "key" \notin DOMAIN resp.body.obj THEN Failure(ErrUnexpected)
  ELSE [ok |-> TRUE, key |-> resp.body.obj["key"], err |-> ""]
get_hkey_from_ankiweb(resp, zstd) ==
  IF resp.kind = "urlerror" THEN Failure(ErrConnect)
  ELSE IF resp.code # 200
       THEN IF resp.code = 401 \/ resp.code = 403 THEN Failure(ErrInvalid)
            ELSE Failure(ErrStatus)
  ELSE IF (resp.zstd /\ ~zstd) \/ ~resp.body.valid THEN Failure(ErrDecode)
  ELSE IF "key" \notin DOMAIN resp.body.obj THEN Failure(ErrUnexpected)
  ELSE [ok |-> TRUE, key |-> resp.body.obj["key"], err |-> ""]

\* the connection is dropped without commit when main() exits through
\* sys.exit(1): the pending transaction is rolled back
AbortKeepsWrites(committed, pending) == pending
Abort(committed, pending) == committed

\* ---------------------------------------------------------------- Init
ExistingGlobals ==
  {[created |-> 0, defaultLang |-> "de_DE", firstRun |-> TRUE, id |-> 5,
    lastMsg |-> 0, last_loaded_profile_name |-> "Other",
    last_run_version |-> 250204, suppressUpdate |-> FALSE, updates |-> TRUE,
    ver |-> 0],
   [created |-> 0, id |-> 5],
   [created |-> 0, defaultLang |-> "en_US", firstRun |-> FALSE, id |-> 5,
    last_loaded_profile_name |-> PROFILE_NAME, extra |-> 1]}

ExistingUsers ==
  {[mainWindowGeom |-> None, mainWindowState |-> None, numBackups |-> 50,
    lastOptimize |-> 0, searchHistory |-> <<>>, syncKey |-> None,
    syncMedia |-> TRUE, autoSync |-> TRUE, allowHTML |-> FALSE,
    importMode |-> 1, lastColour |-> "#00f", stripHTML |-> TRUE,
    deleteMedia |-> FALSE],
   [numBackups |-> 10, lastOptimize |-> 0, syncKey |-> <<"o">>,
    syncUser |-> <<"o">>, syncMedia |-> FALSE, autoSync |-> FALSE],
   [numBackups |-> 10]}

OtherRow == [name |-> "Other", data |-> PickleDumps([numBackups |-> 3])]

InitialTables ==
  {gs \cup us \cup os :
     gs \in {{}} \cup {{[name |-> "_global", data |-> PickleDumps(g)]} : g \in ExistingGlobals},
     us \in {{}} \cup {{[name |-> n, data |-> PickleDumps(u)]} :
                          n \in {"User 1", "user 1"}, u \in ExistingUsers},
     os \in {{}, {OtherRow}}}

NoRun == [ran |-> FALSE, ok |-> FALSE, authed |-> FALSE, user |-> None, key |-> None]

Init ==
  /\ HAS_ZSTD \in BOOLEAN
  /\ now = 0
  /\ rnd = 8
  /\ envUserKind = "unset" /\ envPassKind = "unset"
  /\ username = None /\ password = None
  /\ tableExists \in BOOLEAN
  /\ db \in InitialTables
  /\ tableExists = FALSE => db = {}
  /\ UniqueNames(db)
  /\ txn = db
  /\ inTxn = FALSE
  /\ pc = "idle"
  /\ runs = 0
  /\ global_profile = EmptyDict
  /\ user_profile = EmptyDict
  /\ requests = 0
  /\ request = EmptyDict
  /\ response = EmptyDict
  /\ errKind = ""
  /\ exitStatus = 0
  /\ pre = db
  /\ preTable = tableExists
  /\ last = NoRun

\* ---------------------------------------------------------------- actions
\* the script is started: module-level code runs (lines 36-75); each
\* invocation reads a later clock value and draws a fresh random id
Invoke ==
  /\ pc \in {"idle", "done"}
  /\ runs < MaxRuns
  /\ runs' = runs + 1
  /\ envUserKind' = "unset" /\ envPassKind' = "unset"
  /\ now' = now + 1
  /\ rnd' \in Ids
  /\ last' = IF pc = "done"
             THEN [ran |-> TRUE, ok |-> exitStatus = 0,
                   authed |-> UseCredentials(username, password),
                   user |-> username,
                   key |-> IF "syncKey" \in DOMAIN user_profile THEN user_profile["syncKey"] ELSE None]
             ELSE NoRun
  /\ pre' = db /\ preTable' = tableExists
  /\ username' = None /\ password' = None
  /\ global_profile' = EmptyDict /\ user_profile' = EmptyDict
  /\ requests' = 0 /\ request' = EmptyDict /\ response' = EmptyDict
  /\ errKind' = "" /\ exitStatus' = 0
  /\ txn' = db /\ inTxn' = FALSE
  /\ pc' = "main"
  /\ UNCHANGED <<HAS_ZSTD, tableExists, db>>

\* main lines 219-229: the two environment values are read; what kind of
\* value each was is kept, the text only as far as main keeps it
Main ==
  /\ pc = "main"
  /\ \E eu, ep \in EnvValues :
       LET c == MainCredentials(eu, ep)
       IN /\ envUserKind' = EnvKind(eu) /\ envPassKind' = EnvKind(ep)
          /\ username' = c.username /\ password' = c.password
  /\ pc' = "connect"
  /\ UNCHANGED <<HAS_ZSTD, now, rnd, tableExists, db, txn, inTxn,
                 runs, global_profile, user_profile, requests, request, response,
                 errKind, exitStatus, pre, preTable, last>>

\* setup_profile lines 141-151: the DDL statement runs outside a transaction
Connect ==
  /\ pc = "connect"
  /\ tableExists' = TRUE
  /\ txn' = db /\ inTxn' = FALSE
  /\ pc' = "global"
  /\ UNCHANGED <<HAS_ZSTD, now, rnd, envUserKind, envPassKind, username, password, db,
                 runs, global_profile, user_profile, requests, request, response,
                 errKind, exitStatus, pre, preTable, last>>

\* setup_profile lines 154-173
SaveGlobal ==
  /\ pc = "global"
  /\ LET g == EnsureCritical(LoadGlobalProfile(txn))
     IN /\ global_profile' = g
        /\ txn' = InsertOrReplace(txn, "_global", PickleDumps(g))
  /\ inTxn' = TRUE
  /\ pc' = "user"
  /\ UNCHANGED <<HAS_ZSTD, now, rnd, envUserKind, envPassKind, username, password,
                 tableExists, db, runs, user_profile, requests, request, response,
                 errKind, exitStatus, pre, preTable, last>>

\* setup_profile lines 176-187
LoadUser ==
  /\ pc = "user"
  /\ user_profile' = LoadUserProfile(txn)
  /\ pc' = IF UseCredentials(username, password) THEN "auth" ELSE "saveuser"
  /\ UNCHANGED <<HAS_ZSTD, now, rnd, envUserKind, envPassKind, username, password,
                 tableExists, db, txn, inTxn, runs, global_profile, requests,
                 request, response, errKind, exitStatus, pre, preTable, last>>

\* get_hkey_from_ankiweb lines 87-108: the POST is sent
SendRequest ==
  /\ pc = "auth"
  /\ request' = BuildRequest(username, password, HAS_ZSTD)
  /\ requests' = requests + 1
  /\ pc' = "await"
  /\ UNCHANGED <<HAS_ZSTD, now, rnd, envUserKind, envPassKind, username, password,
                 tableExists, db, txn, inTxn, runs, global_profile, user_profile,
                 response, errKind, exitStatus, pre, preTable, last>>

\* get_hkey_from_ankiweb lines 108-123 and setup_profile lines 189-194
AuthSucceeds ==
  /\ pc = "await"
  /\ \E resp \in Responses :
       LET r == get_hkey_from_ankiweb(resp, HAS_ZSTD)
       IN /\ r.ok
          /\ response' = resp
          /\ user_profile' = SetCredentials(user_profile, r.key, username)
  /\ pc' = "saveuser"
  /\ UNCHANGED <<HAS_ZSTD, now, rnd, envUserKind, envPassKind, username, password,
                 tableExists, db, txn, inTxn, runs, global_profile, requests,
                 request, errKind, exitStatus, pre, preTable, last>>

\* get_hkey_from_ankiweb lines 120-129 raising, main lines 230-232
AuthFails ==
  /\ pc = "await"
  /\ \E resp \in Responses :
       LET r == get_hkey_from_ankiweb(resp, HAS_ZSTD)
       IN /\ ~r.ok
          /\ response' = resp
          /\ errKind' = r.err
  /\ exitStatus' = 1
  /\ db' = Abort(db, txn)
  /\ txn' = db' /\ inTxn' = FALSE
  /\ pc' = "done"
  /\ UNCHANGED <<HAS_ZSTD, now, rnd, envUserKind, envPassKind, username, password,
                 tableExists, runs, global_profile, user_profile, requests,
                 request, pre, preTable, last>>

\* setup_profile lines 197-200
SaveUser ==
  /\ pc = "saveuser"
  /\ txn' = InsertOrReplace(txn, PROFILE_NAME, PickleDumps(user_profile))
  /\ pc' = "commit"
  /\ UNCHANGED <<HAS_ZSTD, now, rnd, envUserKind, envPassKind, username, password,
                 tableExists, db, inTxn, runs, global_profile, user_profile,
                 requests, request, response, errKind, exitStatus, pre, preTable, last>>

\* setup_profile lines 202-214, main returns
Commit ==
  /\ pc = "commit"
  /\ db' = txn
  /\ inTxn' = FALSE
  /\ exitStatus' = 0
  /\ pc' = "done"
  /\ UNCHANGED <<HAS_ZSTD, now, rnd, envUserKind, envPassKind, username, password,
                 tableExists, txn, runs, global_profile, user_profile,
                 requests, request, response, errKind, pre, preTable, last>>

Next == Invoke \/ Main \/ Connect \/ SaveGlobal \/ LoadUser \/ SendRequest
        \/ AuthSucceeds \/ AuthFails \/ SaveUser \/ Commit

Spec == Init /\ [][Next]_vars

\* ---------------------------------------------------------------- properties
Critical == {"firstRun", "defaultLang", "last_loaded_profile_name"}
SyncNames == {"syncKey", "syncUser", "autoSync", "syncMedia"}
Returned == pc = "done" /\ exitStatus = 0
Failed == pc = "done" /\ exitStatus = 1
Responded == requests > 0 /\ pc \in {"saveuser", "commit", "done"}
EnvComplete == envUserKind = "text" /\ envPassKind = "text"
Restrict(d, ks) == [k \in (DOMAIN d) \cap ks |-> d[k]]
\* the sync fields of the user record of a table (no fields if it has no user row)
SyncFields(rows) ==
  IF HasRow(rows, PROFILE_NAME) THEN Restrict(RowData(rows, PROFILE_NAME), SyncNames)
  ELSE EmptyDict
KeyUnset(rows) ==
  LET u == RowData(rows, PROFILE_NAME)
  IN "syncKey" \notin DOMAIN u \/ u["syncKey"] = None
GlobalNormalized(rows) ==
  /\ HasRow(rows, "_global")
  /\ LET g == RowData(rows, "_global")
     IN /\ Critical \subseteq DOMAIN g
        /\ g["firstRun"] = FALSE
        /\ g["defaultLang"] = "en_US"
        /\ g["last_loaded_profile_name"] = "User 1"

\* C1: after every run that returns normally the committed store holds a
\* _global record with firstRun = False, defaultLang = "en_US" and
\* last_loaded_profile_name = "User 1", and a record for "User 1" exists.
C1_GlobalNormalizedOnReturn ==
  Returned => tableExists /\ GlobalNormalized(db) /\ HasRow(db, "User 1")
C1_Witness ==
  /\ Returned
  /\ HasRow(pre, "_global")
  /\ "firstRun" \in DOMAIN RowData(pre, "_global")
  /\ RowData(pre, "_global")["firstRun"] = TRUE
  /\ RowData(pre, "_global")["defaultLang"] = "de_DE"

\* C2: in a run with both credentials where the remote call succeeds with
\* token t, the committed user record has syncKey = t, syncUser = the username
\* given to setup_profile, autoSync = True and syncMedia = True, whatever the
\* record held before.
C2_CredentialsStored ==
  (Returned /\ UseCredentials(username, password)) =>
     /\ Responded
     /\ HasRow(db, PROFILE_NAME)
     /\ SyncFields(db) = [syncKey |-> response.body.obj["key"], syncUser |-> username,
                          autoSync |-> TRUE, syncMedia |-> TRUE]
C2_Witness ==
  /\ Returned /\ UseCredentials(username, password)
  /\ HasRow(pre, PROFILE_NAME)
  /\ SyncFields(pre) = [syncKey |-> <<"o">>, syncUser |-> <<"o">>,
                        autoSync |-> FALSE, syncMedia |-> FALSE]

\* C3 as stated: with neither environment variable set, for every initial
\* store, the run ends with exit status 0, a _global record whose firstRun is
\* false and a user record whose syncKey is None or absent.
C3_Original ==
  (pc = "done" /\ envUserKind = "unset" /\ envPassKind = "unset") =>
     /\ exitStatus = 0
     /\ GlobalNormalized(db)
     /\ HasRow(db, PROFILE_NAME)
     /\ KeyUnset(db)
\* C3 amended: with neither environment variable set the run ends with exit
\* status 0, a _global record whose firstRun is false and a user record whose
\* syncKey is what the store held before the run: None for a newly created
\* record, otherwise the stored value (absent if it was absent).
C3_KeyPreserved ==
  (pc = "done" /\ envUserKind = "unset" /\ envPassKind = "unset") =>
     /\ exitStatus = 0
     /\ GlobalNormalized(db)
     /\ HasRow(db, PROFILE_NAME)
     /\ IF HasRow(pre, PROFILE_NAME)
        THEN Restrict(RowData(db, PROFILE_NAME), {"syncKey"})
               = Restrict(RowData(pre, PROFILE_NAME), {"syncKey"})
        ELSE Restrict(RowData(db, PROFILE_NAME), {"syncKey"}) = [syncKey |-> None]
C3_Witness ==
  /\ pc = "done" /\ envUserKind = "unset" /\ envPassKind = "unset"
  /\ HasRow(pre, PROFILE_NAME)
  /\ SyncFields(pre) # EmptyDict
  /\ ~KeyUnset(pre)

\* C4: a run that starts with a _global record and returns normally keeps
\* every field of it other than firstRun, defaultLang and
\* last_loaded_profile_name, and adds or removes no other field.
C4_GlobalFrame ==
  (Returned /\ HasRow(pre, "_global")) =>
     /\ HasRow(db, "_global")
     /\ LET g0 == RowData(pre, "_global")
            g1 == RowData(db, "_global")
        IN /\ DOMAIN g1 = (DOMAIN g0) \cup Critical
           /\ \A k \in (DOMAIN g0) \ Critical : g1[k] = g0[k]
C4_Witness ==
  /\ Returned
  /\ HasRow(pre, "_global")
  /\ DOMAIN RowData(pre, "_global") = {"created", "id"}

\* C5: a 401 or 403 response gives the invalid-credentials error, any other
\* non-success status or a transport failure gives the service/connectivity
\* error, a parsed response without a key field gives the protocol-mismatch
\* error; each ends the run with status 1 after a single request and leaves
\* the committed user record as it was.
FetchFailureKind ==
  IF response.kind = "urlerror" THEN {ErrConnect}
  ELSE IF response.code \in {401, 403} THEN {ErrInvalid}
  ELSE IF response.code # 200 THEN {ErrStatus}
  ELSE IF ~(response.zstd /\ ~HAS_ZSTD) /\ response.body.valid
          /\ "key" \notin DOMAIN response.body.obj THEN {ErrUnexpected}
  ELSE {}
C5_FetchFailures ==
  /\ requests <= 1
  /\ (Responded /\ FetchFailureKind # {}) =>
        /\ Failed
        /\ errKind \in FetchFailureKind
        /\ Select(db, PROFILE_NAME) = Select(pre, PROFILE_NAME)
        /\ SyncFields(db) = SyncFields(pre)
C5_Witness ==
  /\ Failed /\ Responded
  /\ response.kind = "http" /\ response.code = 403
  /\ errKind = ErrInvalid

\* C6: if either environment variable is unset, empty or whitespace only, no
\* request is sent, neither credential is written to the user record, the
\* profile is created and committed, and the exit status is 0.
C6_NoAuthWithoutBoth ==
  (runs >= 1 /\ pc # "main" /\ ~EnvComplete) =>
     /\ requests = 0
     /\ pc = "done" =>
          /\ exitStatus = 0
          /\ GlobalNormalized(db)
          /\ HasRow(db, PROFILE_NAME)
          /\ SyncFields(db) = IF HasRow(pre, PROFILE_NAME) THEN SyncFields(pre)
                              ELSE Restrict(DEFAULT_USER_PROFILE, SyncNames)
C6_Witness ==
  /\ pc = "done"
  /\ envUserKind = "text" /\ envPassKind = "blank"
  /\ ~HasRow(pre, PROFILE_NAME)

\* C7: a run without credentials that follows a run without credentials
\* leaves the store as the first run left it; so does an authenticated run
\* that follows an authenticated run with the same username when the remote
\* service returns the same token.
SameAsLastRun ==
  /\ last.ran /\ last.ok
  /\ \/ ~last.authed /\ ~UseCredentials(username, password)
     \/ /\ last.authed /\ UseCredentials(username, password)
        /\ last.user = username
        /\ Responded
        /\ last.key = response.body.obj["key"]
C7_Idempotent ==
  (Returned /\ SameAsLastRun) => db = pre /\ tableExists = preTable
C7_Witness ==
  /\ Returned /\ SameAsLastRun
  /\ ~UseCredentials(username, password)
  /\ RowData(db, "_global")["id"] # rnd

\* C8: when the remote answers 401 the process exits with status 1 and the
\* committed user record's syncKey, syncUser, autoSync and syncMedia are what
\* they were before the run (absent if there was no user record).
C8_Unauthorized ==
  (Responded /\ response.kind = "http" /\ response.code = 401) =>
     /\ Failed
     /\ SyncFields(db) = SyncFields(pre)
     /\ HasRow(db, PROFILE_NAME) = HasRow(pre, PROFILE_NAME)
C8_Witness ==
  /\ Failed /\ Responded
  /\ response.kind = "http" /\ response.code = 401
  /\ HasRow(pre, PROFILE_NAME)
  /\ ~KeyUnset(pre)

\* C9: a run that returns normally writes the _global row and the "User 1"
\* row (matched without regard to case, so no two rows differ only in case),
\* leaves every other row as it was, and has committed both writes when it
\* returns.
Touched(r) == Fold(r.name) \in {Fold("_global"), Fold(PROFILE_NAME)}
C9_TwoRows ==
  /\ UniqueNames(db)
  /\ Returned =>
       /\ {r \in db : ~Touched(r)} = {r \in pre : ~Touched(r)}
       /\ {r \in db : Touched(r)} =
             {[name |-> "_global", data |-> PickleDumps(global_profile)],
              [name |-> PROFILE_NAME, data |-> PickleDumps(user_profile)]}
       /\ ~inTxn /\ txn = db
C9_Witness ==
  /\ Returned
  /\ OtherRow \in pre
  /\ \E r \in pre : r.name = "user 1"

\* C10: the _global write is issued before the credential fetch and committed
\* only together with the user-record write: the committed store keeps its
\* pre-run rows until the commit, a run whose fetch fails leaves every row as
\* it was, and _global is never committed without the user record.
C10_AllOrNothing ==
  /\ (pc \in {"auth", "await"}) =>
        /\ inTxn
        /\ Select(txn, "_global") = {[name |-> "_global", data |-> PickleDumps(global_profile)]}
  /\ (runs >= 1 /\ ~Returned) => db = pre
  /\ (runs >= 1 /\ db # pre) => Returned /\ HasRow(db, "_global") /\ HasRow(db, PROFILE_NAME)
C10_Witness ==
  /\ Failed /\ Responded
  /\ ~HasRow(pre, "_global")
  /\ ~HasRow(pre, PROFILE_NAME)
  /\ global_profile = EnsureCritical(DEFAULT_GLOBAL_PROFILE)
====
